---- MODULE Spec2Model ----
(***************************************************************************)
(* Model of the Kibana core Server (src/unnamed/part_000): the lifecycle   *)
(* orchestrator that drives the core services through setup, start and     *)
(* stop, registers the default route and the 'core' request context.       *)
(*                                                                         *)
(* Every public method of Server is an async function.  An invocation runs *)
(* synchronously up to its first await, is suspended there, and each later *)
(* resumption runs synchronously up to the next await.  The model has one  *)
(* action per invocation and one per resumption; the services themselves   *)
(* are outside the class, so whether a service step returns or throws is   *)
(* chosen by the environment.                                              *)
(***************************************************************************)
EXTENDS Integers, Sequences, FiniteSets, TLC

\* Bound on the number of invocations of Server methods on one instance.
MaxCalls == 2

\* Bound on the number of times the bootstrap invokes Server.stop().
MaxStops == 2

\* Bound on the number of requests whose 'core' context is resolved.
MaxRequests == 2

\* Bound on the number of clients each Elasticsearch client stream emits.
MaxClients == 2

----------------------------------------------------------------------------
\* One step of a lifecycle method: the service operation it calls, whether
\* the call is awaited, the local constant its result is bound to and the
\* locals handed to it as arguments.
Step(n, a, b, u) == [name |-> n, async |-> a, binds |-> b, uses |-> u]

\* const coreSetup: InternalCoreSetup = { capabilities, context, ... }
coreSetup ==
  {"capabilitiesSetup", "contextServiceSetup", "elasticsearchServiceSetup",
   "httpSetup", "uiSettingsSetup", "savedObjectsSetup"}

\* The body of Server.setup(), statement by statement.
SetupSteps ==
  << Step("plugins.discover", TRUE, "pluginDependencies", {}),
     Step("legacy.discoverPlugins", TRUE, "legacyPlugins", {}),
     Step("ensureValidConfiguration", TRUE, "none", {"legacyPlugins"}),
     Step("context.setup", FALSE, "contextServiceSetup", {"pluginDependencies"}),
     Step("http.setup", TRUE, "httpSetup", {"contextServiceSetup"}),
     Step("registerDefaultRoute", FALSE, "none", {"httpSetup"}),
     Step("capabilities.setup", FALSE, "capabilitiesSetup", {"httpSetup"}),
     Step("elasticsearch.setup", TRUE, "elasticsearchServiceSetup", {"httpSetup"}),
     Step("uiSettings.setup", TRUE, "uiSettingsSetup", {"httpSetup"}),
     Step("savedObjects.setup", TRUE, "savedObjectsSetup",
          {"elasticsearchServiceSetup", "legacyPlugins"}),
     Step("plugins.setup", TRUE, "pluginsSetup", coreSetup),
     Step("legacy.setup", TRUE, "none", coreSetup \cup {"pluginsSetup"}),
     Step("registerCoreContext", FALSE, "none", coreSetup) >>

\* const coreStart = { capabilities, savedObjects, plugins }
coreStart == {"capabilitiesStart", "savedObjectsStart", "pluginsStart"}

\* The body of Server.start().
StartSteps ==
  << Step("savedObjects.start", TRUE, "savedObjectsStart", {}),
     Step("capabilities.start", FALSE, "capabilitiesStart", {}),
     Step("plugins.start", TRUE, "pluginsStart",
          {"capabilitiesStart", "savedObjectsStart"}),
     Step("legacy.start", TRUE, "none", coreStart),
     Step("http.start", TRUE, "none", {}) >>

\* The body of Server.stop().
StopSteps ==
  << Step("legacy.stop", TRUE, "none", {}),
     Step("plugins.stop", TRUE, "none", {}),
     Step("savedObjects.stop", TRUE, "none", {}),
     Step("elasticsearch.stop", TRUE, "none", {}),
     Step("http.stop", TRUE, "none", {}) >>

\* The schemas array of Server.setupConfigSchemas(), in array order.
schemas ==
  << "elasticsearch", "logging", "http", "plugins", "dev", "kibana",
     "savedObjects", "uiSettings" >>

\* for (const [path, schema] of schemas) await configService.setSchema(path, schema)
SchemaSteps ==
  [i \in 1..Len(schemas) |-> Step("setSchema:" \o schemas[i], TRUE, "none", {})]

Ops == {"setupConfigSchemas", "setup", "start", "stop"}

\* seq with its i-th and j-th elements exchanged.
Swap(seq, i, j) ==
  [k \in DOMAIN seq |-> IF k = i THEN seq[j] ELSE IF k = j THEN seq[i] ELSE seq[k]]

BaseSteps(op) ==
  IF op = "setup" THEN SetupSteps
  ELSE IF op = "start" THEN StartSteps
  ELSE IF op = "stop" THEN StopSteps
  ELSE SchemaSteps

\* Mutant: setup() sets capabilities up after elasticsearch.
StepsCapabilitiesLate(op) ==
  IF op = "setup" THEN Swap(SetupSteps, 7, 8) ELSE BaseSteps(op)

\* Mutant: setup() validates the configuration after context.setup().
StepsLateValidation(op) ==
  IF op = "setup" THEN Swap(SetupSteps, 3, 4) ELSE BaseSteps(op)

\* Mutant: setup() validates the configuration before it discovers the
\* legacy plugins.
StepsLateDiscovery(op) ==
  IF op = "setup" THEN Swap(SetupSteps, 2, 3) ELSE BaseSteps(op)

\* Mutant: start() opens the http listener before it starts legacy.
StepsHttpEarly(op) ==
  IF op = "start" THEN Swap(StartSteps, 4, 5) ELSE BaseSteps(op)

\* Mutant: setupConfigSchemas() registers http before logging.
StepsSchemasSwapped(op) ==
  IF op = "setupConfigSchemas" THEN Swap(SchemaSteps, 2, 3) ELSE BaseSteps(op)

\* Mutant: setup() sets saved objects up before elasticsearch.
StepsSavedObjectsEarly(op) ==
  IF op = "setup" THEN Swap(SetupSteps, 8, 10) ELSE BaseSteps(op)

\* Mutant: setup() registers the 'core' context before it sets the plugins up.
StepsContextEarly(op) ==
  IF op = "setup" THEN Swap(SetupSteps, 11, 13) ELSE BaseSteps(op)

\* Mutant: stop() also stops the ui-settings service.
StepsStopsUiSettings(op) ==
  IF op = "stop"
  THEN Append(StopSteps, Step("uiSettings.stop", TRUE, "none", {}))
  ELSE BaseSteps(op)

\* The statements of a method.
Steps(op) ==
  CASE op = "setup" -> SetupSteps
    [] op = "start" -> StartSteps
    [] op = "stop" -> StopSteps
    [] op = "setupConfigSchemas" -> SchemaSteps

----------------------------------------------------------------------------
\* The most new-style plugins an installation has.
MaxPlugins == 2

\* The opaque ids of the new-style plugins, and the legacy service's id,
\* which is none of them.
Plugins == 1..MaxPlugins
legacyId == 0

\* The results plugins.discover() can have: each discovered plugin with the
\* discovered plugins it depends on, itself not among them.
Graphs ==
  LET all == UNION {[K -> SUBSET K] : K \in SUBSET Plugins}
  IN  {g \in all : \A p \in DOMAIN g : p \notin g[p]}

\* The plugin graph of an installation where each plugin depends on the
\* plugins of lower id.
Installed == [p \in Plugins |-> {q \in Plugins : q < p}]

\* Mutant: every plugin is also given a dependency on the legacy id.
ContextDependenciesBothWays(pluginDependencies) ==
  [p \in DOMAIN pluginDependencies \cup {legacyId} |->
     IF p = legacyId THEN DOMAIN pluginDependencies
     ELSE pluginDependencies[p] \cup {legacyId}]

\* new Map([...pluginDependencies,
\*          [this.legacy.legacyId, [...pluginDependencies.keys()]]]):
\* the entries of the discovered map, then the legacy entry, a later entry
\* replacing an earlier one with the same key.
ContextDependencies(pluginDependencies) ==
  [p \in DOMAIN pluginDependencies \cup {legacyId} |->
     IF p = legacyId THEN DOMAIN pluginDependencies ELSE pluginDependencies[p]]

\* Before context.setup is called it has been handed nothing.
NoDeps == <<>>

VARIABLES
  pluginGraph, \* what plugins.discover() returns in this installation
  contextDeps, \* the pluginDependencies context.setup was handed, NoDeps before
  calls,      \* the invocations of Server methods so far, in invocation order
  routes,     \* routes registered with the http router
  contexts,   \* route handler contexts registered with http
  listening,  \* TRUE while http accepts network traffic
  adminClientStream, \* adminClient$: the last client emitted, 0 before the first
  dataClientStream,  \* dataClient$: the last client emitted, 0 before the first
  reqs,       \* the invocations of the 'core' context provider, one per request
  heap,       \* the scoped client instances created so far, by reference
  response    \* the last request to GET /core/ with its result, NoResponse before

httpVars == <<routes, contexts, listening, response>>
ctxVars == <<adminClientStream, dataClientStream, reqs, heap>>
depVars == <<pluginGraph, contextDeps>>
vars == <<pluginGraph, contextDeps, calls, routes, contexts, listening,
          adminClientStream, dataClientStream, reqs, heap, response>>

\* What a request to the default route can carry: nothing, a body, or a
\* body no schema would accept.
Payloads == {"none", "body", "malformed"}

NoResponse == <<>>

\* res.ok(options): the success result of the http response factory.
Ok(options) == [status |-> 200, body |-> options.body]

\* Mutant: the route validates the request and refuses a malformed one.
DefaultRouteValidating(context, req) ==
  IF req = "malformed"
  THEN [status |-> 400, body |-> [version |-> "none"]]
  ELSE Ok([body |-> [version |-> "0.0.1"]])

\* The handler of router.get({ path: '/', validate: false }, ...):
\*   async (context, req, res) => res.ok({ body: { version: '0.0.1' } })
DefaultRoute(context, req) == Ok([body |-> [version |-> "0.0.1"]])

\* An event of an invocation's trace.
Ev(s, kind) ==
  [step |-> s.name, kind |-> kind,
   args |-> IF kind = "call" THEN s.uses ELSE {}]

\* The step's call returned: its result is bound to the step's local.
Returned(c, s) ==
  [c EXCEPT !.trace = Append(@, Ev(s, "return")),
            !.locals = IF s.binds = "none" THEN @ ELSE @ \cup {s.binds}]

\* Mutant: the failure is caught and the method carries on.
ThrownCaught(c, s) ==
  [c EXCEPT !.trace = Append(@, Ev(s, "throw"))]

\* The step's call threw: nothing catches it, the async function rejects.
Thrown(c, s) ==
  [c EXCEPT !.trace = Append(@, Ev(s, "throw")), !.status = "rejected",
            !.error = s.name]

\* Run invocation c synchronously from step i on: an awaited step is called
\* and the invocation is suspended on it; a step that is not awaited is
\* called and either returns, and the next statement runs, or (when it is
\* step failAt) throws; past the last statement the invocation resolves.
RECURSIVE Run(_, _, _)
Run(c, i, failAt) ==
  LET steps == Steps(c.op) IN
  IF i > Len(steps)
  THEN [c EXCEPT !.pc = i, !.status = "resolved"]
  ELSE LET s == steps[i]
           called == [c EXCEPT !.pc = i, !.trace = Append(@, Ev(s, "call"))]
       IN  IF s.async THEN called
           ELSE IF failAt = i THEN Thrown(called, s)
           ELSE Run(Returned(called, s), i + 1, failAt)

\* The steps a resumption at step i may run without suspending.
RECURSIVE SyncAfter(_, _)
SyncAfter(op, i) ==
  IF i > Len(Steps(op)) \/ Steps(op)[i].async THEN {}
  ELSE {i} \cup SyncAfter(op, i + 1)

\* The steps that returned between trace lengths n and the end of c's trace.
ReturnedSince(c, n) ==
  {c.trace[k].step : k \in {j \in (n + 1)..Len(c.trace) : c.trace[j].kind = "return"}}

\* What the returned steps did to the http service: the default route and
\* the 'core' context are registered, the listener is opened or closed; and
\* what context.setup was handed.
Effects(old, new) ==
  LET done == ReturnedSince(new, Len(old.trace)) IN
  /\ routes' = IF "registerDefaultRoute" \in done
               THEN routes \cup {"GET /core/"} ELSE routes
  /\ contexts' = IF "registerCoreContext" \in done
                 THEN contexts \cup {"core"} ELSE contexts
  /\ listening' = IF "http.start" \in done THEN TRUE
                  ELSE IF "http.stop" \in done THEN FALSE
                  ELSE listening
  /\ contextDeps' = IF "context.setup" \in done
                    THEN ContextDependencies(pluginGraph) ELSE contextDeps
  /\ UNCHANGED response

\* The invocations settled so far, as <<method, outcome>>.
Settled ==
  {<<calls[k].op, calls[k].status>> :
     k \in {j \in 1..Len(calls) : calls[j].status # "pending"}}

\* A fresh invocation of a method; after records what had settled when it
\* was invoked.
NewCall(op) ==
  [op |-> op, pc |-> 0, status |-> "pending", trace |-> <<>>, locals |-> {},
   error |-> "none", after |-> Settled]

Init ==
  /\ pluginGraph = Installed
  /\ contextDeps = NoDeps
  /\ calls = <<>>
  /\ routes = {}
  /\ contexts = {}
  /\ listening = FALSE
  /\ adminClientStream = 0
  /\ dataClientStream = 0
  /\ reqs = <<>>
  /\ heap = <<>>
  /\ response = NoResponse

\* A caller invokes the method: it runs up to its first await.
Invoke(op) ==
  /\ \E failAt \in SyncAfter(op, 1) \cup {0} :
       LET new == Run(NewCall(op), 1, failAt) IN
       /\ calls' = Append(calls, new)
       /\ Effects(NewCall(op), new)
       /\ UNCHANGED <<ctxVars, pluginGraph>>

setupConfigSchemas == Invoke("setupConfigSchemas")
setup == Invoke("setup")
start == Invoke("start")

\* Mutant: stop() remembers that it has run and returns at once when called
\* again.
stopOnce ==
  IF <<"stop", "resolved">> \in Settled
  THEN /\ calls' = Append(calls, [NewCall("stop") EXCEPT !.status = "resolved"])
       /\ UNCHANGED <<httpVars, ctxVars, depVars>>
  ELSE Invoke("stop")

stop == Invoke("stop")

\* The awaited service call of invocation k fulfils: the method runs on to
\* its next await, to a throw, or to its end.
Resume(k) ==
  /\ calls[k].status = "pending"
  /\ LET c == calls[k]
         s == Steps(c.op)[c.pc]
     IN  \E failAt \in SyncAfter(c.op, c.pc + 1) \cup {0} :
           LET new == Run(Returned(c, s), c.pc + 1, failAt) IN
           /\ calls' = [calls EXCEPT ![k] = new]
           /\ Effects(c, new)
           /\ UNCHANGED <<ctxVars, pluginGraph>>

\* Mutant: a timeout; the method gives up on a step that has not completed.
RejectTimeout(k) ==
  /\ calls[k].status = "pending"
  /\ calls' = [calls EXCEPT ![k].status = "rejected", ![k].error = "timeout"]
  /\ UNCHANGED <<httpVars, ctxVars, depVars>>

\* The awaited service call of invocation k rejects: the method rejects.
Reject(k) ==
  /\ calls[k].status = "pending"
  /\ LET c == calls[k]
         s == Steps(c.op)[c.pc]
     IN  /\ calls' = [calls EXCEPT ![k] = Thrown(c, s)]
         /\ UNCHANGED <<httpVars, ctxVars, depVars>>

\* Any caller: the methods are public and guard nothing, so they can be
\* invoked in any order, also while earlier invocations are still pending.
Next ==
  \/ Len(calls) < MaxCalls /\ setupConfigSchemas
  \/ Len(calls) < MaxCalls /\ setup
  \/ Len(calls) < MaxCalls /\ start
  \/ Len(calls) < MaxCalls /\ stop
  \/ \E k \in 1..Len(calls) : Resume(k)
  \/ \E k \in 1..Len(calls) : Reject(k)

Spec == Init /\ [][Next]_vars

----------------------------------------------------------------------------
\* The 'core' request context (Server.registerCoreContext).

\* Some invocation of setup() holds the Elasticsearch setup contract, whose
\* adminClient$ and dataClient$ are the client streams.
StreamsExist ==
  \E k \in 1..Len(calls) : "elasticsearchServiceSetup" \in calls[k].locals

\* A scoped client instance: what it is, the request it is scoped to, and
\* what it wraps (the cluster client taken from the stream, or the reference
\* of the saved-objects client).
Obj(kind, req, of) == [kind |-> kind, req |-> req, of |-> of]

\* A factory call (getScopedClient, asScoped, asScopedToClient) returns a new
\* instance: its reference is the next free one of the heap.
New(h, o) == Append(h, o)
Ref(h) == Len(h)

NoCtx == <<>>

\* Mutant: the ui-settings client is bound to a saved-objects client of its
\* own instead of the one the context exposes.
ProviderOwnClient(h, req, adminClient, dataClient) ==
  LET h1 == New(h, Obj("savedObjectsClient", req, 0))
      h2 == New(h1, Obj("adminClient", req, adminClient))
      h3 == New(h2, Obj("dataClient", req, dataClient))
      h4 == New(h3, Obj("savedObjectsClient", req, 0))
      h5 == New(h4, Obj("uiSettingsClient", req, Ref(h4)))
  IN  [heap |-> h5,
       ctx |-> [savedObjects |-> [client |-> Ref(h1)],
                elasticsearch |-> [adminClient |-> Ref(h2), dataClient |-> Ref(h3)],
                uiSettings |-> [client |-> Ref(h5)]]]

\* The provider's body once both clients are taken, for request req:
\*   savedObjectsClient = coreSetup.savedObjects.getScopedClient(req)
\*   adminClient.asScoped(req), dataClient.asScoped(req)
\*   coreSetup.uiSettings.asScopedToClient(savedObjectsClient)
\* The result is the heap with the new instances and the returned context.
Provider(h, req, adminClient, dataClient) ==
  LET h1 == New(h, Obj("savedObjectsClient", req, 0))
      savedObjectsClient == Ref(h1)
      h2 == New(h1, Obj("adminClient", req, adminClient))
      h3 == New(h2, Obj("dataClient", req, dataClient))
      h4 == New(h3, Obj("uiSettingsClient", req, savedObjectsClient))
  IN  [heap |-> h4,
       ctx |-> [savedObjects |-> [client |-> savedObjectsClient],
                elasticsearch |-> [adminClient |-> Ref(h2), dataClient |-> Ref(h3)],
                uiSettings |-> [client |-> Ref(h4)]]]

\* http dispatches a request to a route handler and invokes the provider:
\* it subscribes to adminClient$ with take(1), which takes the replayed
\* client if one was emitted, and awaits.
Request ==
  /\ listening
  /\ "core" \in contexts
  /\ Len(reqs) < MaxRequests
  /\ reqs' = Append(reqs, [pc |-> "adminClient", adminClient |-> adminClientStream,
                           dataClient |-> 0, ctx |-> NoCtx])
  /\ UNCHANGED <<calls, httpVars, depVars, adminClientStream, dataClientStream, heap>>

\* await adminClient$.pipe(take(1)).toPromise() fulfils; the provider
\* subscribes to dataClient$ with take(1) and awaits.
AdminResolved(r) ==
  /\ reqs[r].pc = "adminClient"
  /\ reqs[r].adminClient > 0
  /\ reqs' = [reqs EXCEPT ![r].pc = "dataClient", ![r].dataClient = dataClientStream]
  /\ UNCHANGED <<calls, httpVars, depVars, adminClientStream, dataClientStream, heap>>

\* await dataClient$.pipe(take(1)).toPromise() fulfils; the provider creates
\* the scoped clients and returns the context, or a factory call throws.
DataResolved(r) ==
  /\ reqs[r].pc = "dataClient"
  /\ reqs[r].dataClient > 0
  /\ \/ LET p == Provider(heap, r, reqs[r].adminClient, reqs[r].dataClient) IN
        /\ heap' = p.heap
        /\ reqs' = [reqs EXCEPT ![r].pc = "resolved", ![r].ctx = p.ctx]
     \/ /\ reqs' = [reqs EXCEPT ![r].pc = "rejected"]
        /\ UNCHANGED heap
  /\ UNCHANGED <<calls, httpVars, depVars, adminClientStream, dataClientStream>>

\* Mutant: no take(1); every subscriber follows the stream's latest client.
TakeLatest(q, field, pc, v) ==
  [r \in DOMAIN q |->
     IF q[r].pc \in {"adminClient", "dataClient"}
     THEN [q[r] EXCEPT ![field] = v] ELSE q[r]]

\* http dispatches a request to the handler of GET /core/, with the context
\* of the request when its provider has resolved.
GetCore ==
  /\ listening
  /\ "GET /core/" \in routes
  /\ \E req \in Payloads :
       \E context \in {NoCtx} \cup {reqs[r].ctx : r \in DOMAIN reqs} :
         response' = [req |-> req, withContext |-> context # NoCtx,
                      result |-> DefaultRoute(context, req)]
  /\ UNCHANGED <<calls, routes, contexts, listening, depVars, ctxVars>>

\* take(1) on a stream: a subscriber still waiting takes the emitted client.
Take(q, field, pc, v) ==
  [r \in DOMAIN q |->
     IF q[r].pc = pc /\ q[r][field] = 0 THEN [q[r] EXCEPT ![field] = v] ELSE q[r]]

\* The Elasticsearch service emits a new admin client.
EmitAdmin ==
  /\ StreamsExist
  /\ adminClientStream < MaxClients
  /\ adminClientStream' = adminClientStream + 1
  /\ reqs' = Take(reqs, "adminClient", "adminClient", adminClientStream + 1)
  /\ UNCHANGED <<calls, httpVars, depVars, dataClientStream, heap>>

\* The Elasticsearch service emits a new data client.
EmitData ==
  /\ StreamsExist
  /\ dataClientStream < MaxClients
  /\ dataClientStream' = dataClientStream + 1
  /\ reqs' = Take(reqs, "dataClient", "dataClient", dataClientStream + 1)
  /\ UNCHANGED <<calls, httpVars, depVars, adminClientStream, heap>>

----------------------------------------------------------------------------
\* The bootstrap as the lifecycle documents it: setupConfigSchemas(), then
\* setup(), then start(), each invoked once and only after the one before
\* resolved; stop() at any time (shutdown on a signal or on a failed phase),
\* after which the bootstrap goes no further forward.

Invoked(op) == \E k \in 1..Len(calls) : calls[k].op = op

Resolved(op) ==
  \E k \in 1..Len(calls) : calls[k].op = op /\ calls[k].status = "resolved"

Stops == Cardinality({k \in 1..Len(calls) : calls[k].op = "stop"})

BootConfigure ==
  /\ calls = <<>>
  /\ setupConfigSchemas

BootSetup ==
  /\ Resolved("setupConfigSchemas")
  /\ ~Invoked("setup") /\ ~Invoked("stop")
  /\ setup

BootStart ==
  /\ Resolved("setup")
  /\ ~Invoked("start") /\ ~Invoked("stop")
  /\ start

Shutdown ==
  /\ Stops < MaxStops
  /\ stop

NextBoot ==
  \/ BootConfigure
  \/ BootSetup
  \/ BootStart
  \/ Shutdown
  \/ \E k \in 1..Len(calls) : Resume(k)
  \/ \E k \in 1..Len(calls) : Reject(k)

SpecBoot == Init /\ [][NextBoot]_vars

\* The bootstrap up to the end of setup(), in any installation.
InitDeps ==
  /\ pluginGraph \in Graphs
  /\ contextDeps = NoDeps
  /\ calls = <<>>
  /\ routes = {} /\ contexts = {} /\ listening = FALSE
  /\ adminClientStream = 0 /\ dataClientStream = 0
  /\ reqs = <<>> /\ heap = <<>>
  /\ response = NoResponse

NextDeps ==
  \/ BootConfigure
  \/ BootSetup
  \/ \E k \in 1..Len(calls) : Resume(k)
  \/ \E k \in 1..Len(calls) : Reject(k)

SpecDeps == InitDeps /\ [][NextDeps]_vars

\* The bootstrap with a single shutdown.
NextLive ==
  \/ BootConfigure
  \/ BootSetup
  \/ BootStart
  \/ ~Invoked("stop") /\ stop
  \/ \E k \in 1..Len(calls) : Resume(k)
  \/ \E k \in 1..Len(calls) : Reject(k)

\* The bootstrap when every awaited service call eventually completes, by
\* fulfilling or by rejecting.
SpecLive ==
  /\ Init
  /\ [][NextLive]_vars
  /\ \A k \in 1..Cardinality(Ops) :
       WF_vars(k \in DOMAIN calls /\ (Resume(k) \/ Reject(k)))

\* The bootstrapped server while it serves requests, up to its shutdown.
NextCtx ==
  \/ BootConfigure
  \/ BootSetup
  \/ BootStart
  \/ \E k \in 1..Len(calls) : Resume(k)
  \/ \E k \in 1..Len(calls) : Reject(k)
  \/ Request
  \/ \E r \in 1..Len(reqs) : AdminResolved(r)
  \/ \E r \in 1..Len(reqs) : DataResolved(r)
  \/ EmitAdmin
  \/ EmitData
  \/ GetCore

SpecCtx == Init /\ [][NextCtx]_vars

----------------------------------------------------------------------------
\* Properties.

Range(seq) == {seq[i] : i \in DOMAIN seq}

Restrict(seq, S) == SelectSeq(seq, LAMBDA x : x \in S)

\* The steps invocation c has called, in call order.
Called(c) ==
  LET t == SelectSeq(c.trace, LAMBDA e : e.kind = "call")
  IN  [i \in 1..Len(t) |-> t[i].step]

\* The steps of invocation c that returned before the i-th event of its
\* trace, in return order.
ReturnedBefore(c, i) ==
  LET t == SelectSeq(SubSeq(c.trace, 1, i - 1), LAMBDA e : e.kind = "return")
  IN  [j \in 1..Len(t) |-> t[j].step]

\* In invocation c every called step finished (returned or threw) before the
\* next step was called; only the last step called may be unfinished.
Sequential(c) ==
  \A i \in 1..Len(c.trace) :
    IF i % 2 = 1
    THEN c.trace[i].kind = "call"
    ELSE c.trace[i].kind \in {"return", "throw"} /\ c.trace[i].step = c.trace[i - 1].step

CallsOf(op) == {k \in 1..Len(calls) : calls[k].op = op}

ServiceSetups ==
  {"context.setup", "http.setup", "capabilities.setup", "elasticsearch.setup",
   "uiSettings.setup", "savedObjects.setup", "plugins.setup", "legacy.setup"}

ServiceStarts ==
  {"savedObjects.start", "capabilities.start", "plugins.start", "legacy.start",
   "http.start"}

SetupOrder ==
  << "context.setup", "http.setup", "registerDefaultRoute", "capabilities.setup",
     "elasticsearch.setup", "uiSettings.setup", "savedObjects.setup",
     "plugins.setup", "legacy.setup" >>

\* C1: every invocation of setup() that resolved called context.setup,
\* http.setup, the default route registration, capabilities.setup,
\* elasticsearch.setup, uiSettings.setup, savedObjects.setup, plugins.setup and
\* legacy.setup once each in exactly this order, each step having finished
\* before the next was called.
C1_SetupOrder ==
  \A k \in CallsOf("setup") :
    calls[k].status = "resolved" =>
      /\ Restrict(Called(calls[k]), Range(SetupOrder)) = SetupOrder
      /\ Sequential(calls[k])

\* A setup() that resolved, while another invocation is still under way.
C1_Witness ==
  \E k \in CallsOf("setup") :
    /\ calls[k].status = "resolved"
    /\ \E j \in 1..Len(calls) : calls[j].status = "pending" /\ calls[j].trace # <<>>

StartBeforeHttp ==
  << "savedObjects.start", "capabilities.start", "plugins.start", "legacy.start" >>

\* C2: in every invocation of start(), http.start is called only when
\* savedObjects.start, capabilities.start, plugins.start and legacy.start have
\* returned, in that order; when one of those four throws, http.start is
\* never called.
C2_HttpStartLast ==
  \A k \in CallsOf("start") :
    LET c == calls[k] IN
    /\ \A i \in 1..Len(c.trace) :
         c.trace[i].kind = "call" /\ c.trace[i].step = "http.start" =>
           ReturnedBefore(c, i) = StartBeforeHttp
    /\ c.error \in Range(StartBeforeHttp) => "http.start" \notin Range(Called(c))
    /\ Sequential(c)

\* One start() called http.start and another failed in legacy.start.
C2_Witness ==
  /\ \E k \in CallsOf("start") : "http.start" \in Range(Called(calls[k]))
  /\ \E k \in CallsOf("start") : calls[k].error = "legacy.start"

StopOrder ==
  << "legacy.stop", "plugins.stop", "savedObjects.stop", "elasticsearch.stop",
     "http.stop" >>

\* An invocation made when setup() and start() had both resolved.
AfterFullStart(c) ==
  {<<"setup", "resolved">>, <<"start", "resolved">>} \subseteq c.after

\* C3: a stop() invoked after setup() and start() both resolved has, once it
\* settles, called legacy.stop, plugins.stop, savedObjects.stop,
\* elasticsearch.stop and http.stop, in that order, each finished before the
\* next was called.
C3_StopsAllInOrder ==
  \A k \in CallsOf("stop") :
    AfterFullStart(calls[k]) /\ calls[k].status # "pending" =>
      /\ Called(calls[k]) = StopOrder
      /\ Sequential(calls[k])

\* C4: a setup() whose configuration validation rejects is rejected, has
\* called nothing but the two plugin discoveries and the validation, and no
\* setup or start of any service has been called on the instance.
C4_InvalidConfigAborts ==
  \A k \in CallsOf("setup") :
    calls[k].error = "ensureValidConfiguration" =>
      /\ calls[k].status = "rejected"
      /\ Called(calls[k]) =
           << "plugins.discover", "legacy.discoverPlugins", "ensureValidConfiguration" >>
      /\ \A j \in 1..Len(calls) :
           Range(Called(calls[j])) \cap (ServiceSetups \cup ServiceStarts) = {}
      /\ routes = {} /\ contexts = {} /\ ~listening

\* The validation rejected, and the bootstrap has shut the server down.
C4_Witness ==
  /\ \E k \in CallsOf("setup") : calls[k].error = "ensureValidConfiguration"
  /\ \E k \in CallsOf("stop") : calls[k].status = "resolved"

\* The steps called in this transition, by any invocation.
NewlyCalled ==
  UNION { {calls'[k].trace[i].step :
             i \in {j \in 1..Len(calls'[k].trace) :
                      /\ calls'[k].trace[j].kind = "call"
                      /\ j > (IF k \in DOMAIN calls THEN Len(calls[k].trace) ELSE 0)}} :
          k \in DOMAIN calls' }

\* C5: no start of a service is called unless a setup() of the instance has
\* resolved: a start() invoked earlier calls none of savedObjects.start,
\* capabilities.start, plugins.start, legacy.start, http.start.
C5_NoStartBeforeSetup ==
  [][NewlyCalled \cap ServiceStarts # {} => <<"setup", "resolved">> \in Settled]_vars

\* The invocations of op that called at least one step.
Effective(op) == {k \in CallsOf(op) : calls[k].trace # <<>>}

\* C6: the lifecycle only moves forward: setup() and start() each take
\* effect at most once, and neither takes effect when invoked after stop().
C6_ForwardOnly ==
  /\ Cardinality(Effective("setup")) <= 1
  /\ Cardinality(Effective("start")) <= 1
  /\ \A i \in CallsOf("stop") :
       \A j \in Effective("setup") \cup Effective("start") : j < i

\* An invocation made when a setup() or start() had failed.
AfterFailure(c) ==
  <<"setup", "rejected">> \in c.after \/ <<"start", "rejected">> \in c.after

\* C7: a stop() invoked after setup() or start() failed completes without
\* error and calls the stop of every one of the five services, whether or
\* not another stop failed.
C7_StopSafeAfterFailure ==
  \A k \in CallsOf("stop") :
    AfterFailure(calls[k]) /\ calls[k].status # "pending" =>
      /\ calls[k].status = "resolved"
      /\ Called(calls[k]) = StopOrder

\* The index of the first event of step name and the given kind in c's
\* trace, 0 when there is none.
RECURSIVE AtFrom(_, _, _, _)
AtFrom(t, name, kind, i) ==
  IF i > Len(t) THEN 0
  ELSE IF t[i].step = name /\ t[i].kind = kind THEN i
  ELSE AtFrom(t, name, kind, i + 1)

At(c, name, kind) == AtFrom(c.trace, name, kind, 1)

\* C8: in every invocation of setup(), plugins.discover has returned before
\* legacy.discoverPlugins is called, and both have returned before the
\* configuration validation or the setup of any service is called;
\* context.setup is handed the discovered plugin dependencies.
C8_DiscoveryFirst ==
  \A k \in CallsOf("setup") :
    LET c == calls[k]
        discovered == At(c, "plugins.discover", "return")
        legacyCalled == At(c, "legacy.discoverPlugins", "call")
        legacyDiscovered == At(c, "legacy.discoverPlugins", "return")
        contextCalled == At(c, "context.setup", "call")
    IN  /\ \A i \in 1..Len(c.trace) :
             /\ c.trace[i].kind = "call"
             /\ c.trace[i].step \in ServiceSetups \cup {"ensureValidConfiguration"}
             => /\ 0 < discovered
                /\ discovered < legacyCalled
                /\ legacyCalled < legacyDiscovered
                /\ legacyDiscovered < i
        /\ contextCalled > 0 => "pluginDependencies" \in c.trace[contextCalled].args

\* A setup() that has called context.setup.
C8_Witness ==
  \E k \in CallsOf("setup") : At(calls[k], "context.setup", "return") > 0

\* C9: in every invocation of setup() and of start(), a step that throws is
\* the last event of the invocation, which is rejected with that failure; a
\* rejected invocation ends in the throw; no step is called twice.
C9_FailFast ==
  \A k \in CallsOf("setup") \cup CallsOf("start") :
    LET c == calls[k]
        n == Len(c.trace)
    IN  /\ \A i \in 1..n :
             c.trace[i].kind = "throw" =>
               i = n /\ c.status = "rejected" /\ c.error = c.trace[i].step
        /\ c.status = "rejected" => n > 0 /\ c.trace[n].kind = "throw"
        /\ Cardinality(Range(Called(c))) = Len(Called(c))

\* A setup() failed in a service's awaited setup and a start() failed in a
\* step that is not awaited.
C9_Witness ==
  /\ \E k \in CallsOf("setup") : calls[k].error = "savedObjects.setup"
  /\ \E k \in CallsOf("start") : calls[k].error = "capabilities.start"

\* The references a resolved context exposes.
Refs(ctx) ==
  {ctx.savedObjects.client, ctx.elasticsearch.adminClient,
   ctx.elasticsearch.dataClient, ctx.uiSettings.client}

ResolvedReqs == {r \in 1..Len(reqs) : reqs[r].pc = "resolved"}

\* C10: a resolved 'core' context has exactly the groups savedObjects.client,
\* elasticsearch.adminClient, elasticsearch.dataClient and uiSettings.client;
\* each is an instance scoped to the request the provider was invoked for,
\* the cluster clients wrap the clients taken for that request, the
\* ui-settings client wraps the very saved-objects client of the context; and
\* the contexts of two requests share no instance.
C10_CoreContextScoped ==
  \A r \in ResolvedReqs :
    LET ctx == reqs[r].ctx IN
    /\ DOMAIN ctx = {"savedObjects", "elasticsearch", "uiSettings"}
    /\ DOMAIN ctx.savedObjects = {"client"}
    /\ DOMAIN ctx.elasticsearch = {"adminClient", "dataClient"}
    /\ DOMAIN ctx.uiSettings = {"client"}
    /\ Refs(ctx) \subseteq DOMAIN heap
    /\ Cardinality(Refs(ctx)) = 4
    /\ heap[ctx.savedObjects.client] = Obj("savedObjectsClient", r, 0)
    /\ heap[ctx.elasticsearch.adminClient] = Obj("adminClient", r, reqs[r].adminClient)
    /\ heap[ctx.elasticsearch.dataClient] = Obj("dataClient", r, reqs[r].dataClient)
    /\ heap[ctx.uiSettings.client] = Obj("uiSettingsClient", r, ctx.savedObjects.client)
    /\ \A q \in ResolvedReqs : q # r => Refs(ctx) \cap Refs(reqs[q].ctx) = {}

\* Two requests were in flight together (the later one resolved first) and
\* both contexts are resolved.
C10_Witness ==
  /\ ResolvedReqs = {1, 2}
  /\ reqs[2].ctx.savedObjects.client < reqs[1].ctx.savedObjects.client

\* s is an initial part of t.
IsPrefix(s, t) == Len(s) <= Len(t) /\ s = SubSeq(t, 1, Len(s))

SchemaOrder ==
  << "setSchema:elasticsearch", "setSchema:logging", "setSchema:http",
     "setSchema:plugins", "setSchema:dev", "setSchema:kibana",
     "setSchema:savedObjects", "setSchema:uiSettings" >>

\* C12: every invocation of setupConfigSchemas() calls setSchema for
\* elasticsearch, logging, http, plugins, dev, kibana, saved-objects and
\* ui-settings in that order and for nothing else, each call finished before
\* the next; it resolves only when all eight are registered, and a setSchema
\* that rejects is its last call.
C12_SchemasInOrder ==
  \A k \in CallsOf("setupConfigSchemas") :
    LET c == calls[k]
        called == Called(c)
    IN
    /\ IsPrefix(called, SchemaOrder)
    /\ Sequential(c)
    /\ c.status = "resolved" => called = SchemaOrder
    /\ c.status = "rejected" =>
         c.trace[Len(c.trace)].kind = "throw" /\ c.error = c.trace[Len(c.trace)].step

\* One setupConfigSchemas() registered all eight schemas and another was
\* rejected by the setSchema of the plugins schema.
C12_Witness ==
  /\ \E k \in CallsOf("setupConfigSchemas") : calls[k].status = "resolved"
  /\ \E k \in CallsOf("setupConfigSchemas") : calls[k].error = "setSchema:plugins"

\* C15: in every invocation of stop() the stops called are an initial part
\* of legacy, plugins, savedObjects, elasticsearch, http; a stop that throws
\* is the last one called and stop() is rejected with its failure.
C15_StopAborts ==
  \A k \in CallsOf("stop") :
    LET c == calls[k]
        n == Len(c.trace)
        called == Called(c)
    IN  /\ IsPrefix(called, StopOrder)
        /\ Sequential(c)
        /\ \A i \in 1..n :
             c.trace[i].kind = "throw" =>
               /\ i = n
               /\ c.status = "rejected"
               /\ c.error = c.trace[i].step
               /\ called[Len(called)] = c.trace[i].step

\* A stop() rejected by savedObjects.stop: elasticsearch and http not stopped.
C15_Witness ==
  \E k \in CallsOf("stop") :
    /\ calls[k].error = "savedObjects.stop"
    /\ Called(calls[k]) = SubSeq(StopOrder, 1, 3)

\* The step whose result each local holds.
Produces ==
  [l \in {"pluginDependencies", "legacyPlugins", "contextServiceSetup", "httpSetup",
          "capabilitiesSetup", "elasticsearchServiceSetup", "uiSettingsSetup",
          "savedObjectsSetup", "pluginsSetup", "savedObjectsStart",
          "capabilitiesStart", "pluginsStart"} |->
     CASE l = "pluginDependencies" -> "plugins.discover"
       [] l = "legacyPlugins" -> "legacy.discoverPlugins"
       [] l = "contextServiceSetup" -> "context.setup"
       [] l = "httpSetup" -> "http.setup"
       [] l = "capabilitiesSetup" -> "capabilities.setup"
       [] l = "elasticsearchServiceSetup" -> "elasticsearch.setup"
       [] l = "uiSettingsSetup" -> "uiSettings.setup"
       [] l = "savedObjectsSetup" -> "savedObjects.setup"
       [] l = "pluginsSetup" -> "plugins.setup"
       [] l = "savedObjectsStart" -> "savedObjects.start"
       [] l = "capabilitiesStart" -> "capabilities.start"
       [] l = "pluginsStart" -> "plugins.start"]

SixSetupContracts ==
  {"contextServiceSetup", "httpSetup", "capabilitiesSetup",
   "elasticsearchServiceSetup", "uiSettingsSetup", "savedObjectsSetup"}

\* The contracts the claim says a step receives.
Receives(step) ==
  CASE step = "http.setup" -> {"contextServiceSetup"}
    [] step \in {"capabilities.setup", "elasticsearch.setup", "uiSettings.setup"} ->
         {"httpSetup"}
    [] step = "savedObjects.setup" -> {"elasticsearchServiceSetup"}
    [] step = "plugins.setup" -> SixSetupContracts
    [] step = "legacy.setup" -> SixSetupContracts \cup {"pluginsSetup"}
    [] step = "plugins.start" -> {"capabilitiesStart", "savedObjectsStart"}
    [] step = "legacy.start" -> {"capabilitiesStart", "savedObjectsStart", "pluginsStart"}
    [] OTHER -> {}

\* C16: whatever a step of setup() or start() is handed was returned by a
\* step of the same invocation that had returned before the call; and the
\* contracts handed to http, capabilities, elasticsearch, uiSettings,
\* savedObjects, plugins and legacy are the ones the claim lists.
C16_ContractsFeedForward ==
  \A k \in CallsOf("setup") \cup CallsOf("start") :
    LET c == calls[k] IN
    \A i \in 1..Len(c.trace) :
      c.trace[i].kind = "call" =>
        /\ c.trace[i].args \subseteq DOMAIN Produces
        /\ {Produces[l] : l \in c.trace[i].args} \subseteq
             {c.trace[j].step : j \in {h \in 1..(i - 1) : c.trace[h].kind = "return"}}
        /\ c.trace[i].step \in ServiceSetups \cup ServiceStarts =>
             c.trace[i].args \ {"pluginDependencies", "legacyPlugins"}
               = Receives(c.trace[i].step)

\* A setup() that has called legacy.setup and a start() that has called
\* legacy.start.
C16_Witness ==
  /\ \E k \in CallsOf("setup") : At(calls[k], "legacy.setup", "call") > 0
  /\ \E k \in CallsOf("start") : At(calls[k], "legacy.start", "call") > 0

\* Invocation c is suspended on the awaited call of step name.
SuspendedOn(c, name) ==
  /\ c.status = "pending"
  /\ c.trace # <<>>
  /\ c.trace[Len(c.trace)] = [step |-> name, kind |-> "call", args |-> c.trace[Len(c.trace)].args]

\* C19: in setup() the registration of the 'core' context is called only
\* when plugins.setup and legacy.setup have returned, and is the last step;
\* with the bootstrap as caller the context is registered whenever
\* http.start has been called, and is not registered while plugins.setup or
\* legacy.setup is under way.
C19_CoreContextLast ==
  /\ \A k \in CallsOf("setup") :
       LET c == calls[k]
           registering == At(c, "registerCoreContext", "call")
       IN  /\ registering > 0 =>
                /\ 0 < At(c, "plugins.setup", "return")
                /\ At(c, "plugins.setup", "return") < At(c, "legacy.setup", "return")
                /\ At(c, "legacy.setup", "return") < registering
                /\ Called(c)[Len(Called(c))] = "registerCoreContext"
           /\ c.status = "resolved" => At(c, "registerCoreContext", "return") = Len(c.trace)
           /\ SuspendedOn(c, "plugins.setup") \/ SuspendedOn(c, "legacy.setup") =>
                "core" \notin contexts
  /\ \A k \in CallsOf("start") :
       At(calls[k], "http.start", "call") > 0 => "core" \in contexts
  /\ "core" \in contexts =>
       \E k \in CallsOf("setup") : At(calls[k], "registerCoreContext", "return") > 0

\* http.start has been called by the bootstrap's start().
C19_Witness ==
  \E k \in CallsOf("start") : SuspendedOn(calls[k], "http.start")

NotServerSteps ==
  {"context.stop", "capabilities.stop", "uiSettings.stop",
   "context.start", "elasticsearch.start", "uiSettings.start"}

\* C20: stop() calls the stop of no service but legacy, plugins,
\* savedObjects, elasticsearch and http, and a stop() that resolved called
\* the stop of each of the five; no method of Server calls the stop of
\* context, capabilities or uiSettings, and none calls the start of context,
\* elasticsearch or uiSettings, although setup() sets all three up.
C20_StopsExactlyFive ==
  \A k \in 1..Len(calls) :
    LET called == {calls[k].trace[i].step : i \in 1..Len(calls[k].trace)} IN
    /\ called \cap NotServerSteps = {}
    /\ calls[k].op = "stop" =>
         /\ called \subseteq Range(StopOrder)
         /\ calls[k].status = "resolved" => called = Range(StopOrder)
    /\ calls[k].op # "stop" => called \cap Range(StopOrder) = {}
    /\ calls[k].op = "start" => called \subseteq ServiceStarts
    /\ calls[k].op = "setup" /\ calls[k].status = "resolved" =>
         {"context.setup", "capabilities.setup", "uiSettings.setup",
          "elasticsearch.setup"} \subseteq called

\* A setup() resolved and a stop() resolved.
C20_Witness ==
  /\ \E k \in CallsOf("setup") : calls[k].status = "resolved"
  /\ \E k \in CallsOf("stop") : calls[k].status = "resolved"

\* C17: an invocation of the 'core' context provider first waits for a
\* client of the admin stream and only then for one of the data stream; the
\* client it takes is the one the stream holds at that moment and is never
\* replaced by a later one; it resolves only with both taken; and a step of
\* one invocation changes neither the streams, the server, the other
\* invocations nor any instance already created.
C17_TakesFirstValues ==
  [][ \A r \in DOMAIN reqs :
        LET q == reqs[r]
            n == reqs'[r]
        IN  /\ q.pc = "adminClient" => q.dataClient = 0
            /\ q.adminClient > 0 => n.adminClient = q.adminClient
            /\ q.dataClient > 0 => n.dataClient = q.dataClient
            /\ q.adminClient = 0 /\ n.adminClient > 0 =>
                 n.adminClient = adminClientStream' /\ adminClientStream' # adminClientStream
            /\ q.dataClient = 0 /\ n.dataClient > 0 =>
                 n.dataClient = dataClientStream'
            /\ n.pc # q.pc =>
                 /\ \/ q.pc = "adminClient" /\ n.pc = "dataClient" /\ q.adminClient > 0
                    \/ /\ q.pc = "dataClient" /\ n.pc \in {"resolved", "rejected"}
                       /\ q.adminClient > 0 /\ q.dataClient > 0
                 /\ adminClientStream' = adminClientStream
                 /\ dataClientStream' = dataClientStream
                 /\ calls' = calls /\ httpVars' = httpVars
                 /\ \A o \in DOMAIN reqs \ {r} : reqs'[o] = reqs[o]
                 /\ IsPrefix(heap, heap')
                 /\ n.pc = "resolved" =>
                      /\ heap'[n.ctx.elasticsearch.adminClient].of = q.adminClient
                      /\ heap'[n.ctx.elasticsearch.dataClient].of = q.dataClient
    ]_vars

\* A request resolved with the first admin client although the stream has
\* since emitted a second one, which a later request took.
C17_Witness ==
  \E r, o \in DOMAIN reqs :
    /\ reqs[r].pc = "resolved"
    /\ reqs[r].adminClient = 1
    /\ adminClientStream = 2
    /\ reqs[o].adminClient = 2

\* Invocation k exists and has not settled.
Pending(k) == k \in DOMAIN calls /\ calls[k].status = "pending"

\* C18: when every awaited step eventually completes, every invocation of
\* a phase eventually settles, and it has resolved exactly when all its steps
\* returned; an invocation changes only by the completion of the step it
\* awaits, so while that step does not complete it stays pending and calls
\* no later step (no timeout, no cancellation).
C18_NoTimeout ==
  /\ \A k \in 1..Cardinality(Ops) : Pending(k) ~> ~Pending(k)
  /\ [](\A k \in DOMAIN calls :
          /\ SuspendedOn(calls[k], calls[k].trace[Len(calls[k].trace)].step)
               \/ calls[k].status # "pending"
          /\ calls[k].status = "resolved" <=>
               /\ Len(Called(calls[k])) = Len(Steps(calls[k].op))
               /\ calls[k].trace[Len(calls[k].trace)].kind = "return")
  /\ [][ \A k \in DOMAIN calls :
           calls'[k] # calls[k] =>
             LET c == calls[k]
                 n == Len(c.trace)
                 e == calls'[k].trace[n + 1]
             IN  /\ c.status = "pending"
                 /\ Len(calls'[k].trace) > n
                 /\ SubSeq(calls'[k].trace, 1, n) = c.trace
                 /\ e.step = c.trace[n].step
                 /\ e.kind \in {"return", "throw"}
       ]_vars

\* A start() resolved (every step completed) while the stop() invoked
\* during it is still suspended on its first step.
C18_Witness ==
  \E k, j \in DOMAIN calls :
    /\ calls[k].op = "start" /\ calls[k].status = "resolved"
    /\ SuspendedOn(calls[j], "legacy.stop")

\* C11: the dependency map context.setup is handed has an entry for every
\* discovered plugin, equal to the discovered one, and one more entry, for
\* the legacy id, whose dependencies are all the discovered plugin ids; the
\* legacy id is in no plugin's dependencies. It has been handed one exactly
\* when some setup() has called context.setup.
C11_LegacyDependsOnAll ==
  /\ contextDeps # NoDeps <=>
       \E k \in CallsOf("setup") : At(calls[k], "context.setup", "return") > 0
  /\ contextDeps # NoDeps =>
       /\ DOMAIN contextDeps = DOMAIN pluginGraph \cup {legacyId}
       /\ legacyId \notin DOMAIN pluginGraph
       /\ \A p \in DOMAIN pluginGraph :
            contextDeps[p] = pluginGraph[p] /\ legacyId \notin contextDeps[p]
       /\ contextDeps[legacyId] = DOMAIN pluginGraph

\* context.setup was handed the map of an installation with two plugins, one
\* depending on the other.
C11_Witness ==
  /\ contextDeps # NoDeps
  /\ \E p, q \in DOMAIN pluginGraph : p # q /\ q \in pluginGraph[p] /\ p \notin pluginGraph[q]

\* C13: every request to GET /core/, whatever it carries and with or
\* without a context, is answered with status 200 and the body
\* { version: '0.0.1' }; and it is answered only by a server that has
\* registered the route and listens.
C13_DefaultRouteOk ==
  /\ [](response # NoResponse =>
         /\ response.result = [status |-> 200, body |-> [version |-> "0.0.1"]]
         /\ \E k \in CallsOf("setup") : At(calls[k], "registerDefaultRoute", "return") > 0
         /\ \E k \in CallsOf("start") : calls[k].status = "resolved")
  /\ [][response' # response => listening /\ "GET /core/" \in routes]_vars

\* A malformed request was answered, with a resolved context at hand.
C13_Witness ==
  /\ response # NoResponse
  /\ response.req = "malformed"
  /\ response.withContext

\* C21: a stop() invoked when an earlier stop() of the instance has resolved
\* runs like the first: it calls legacy.stop at once and goes on through
\* plugins.stop, savedObjects.stop, elasticsearch.stop and http.stop in that
\* order; it resolves exactly when all five have returned a second time, and
\* is rejected with the failure of the first of them that throws.
C21_StopRunsAgain ==
  \A k \in CallsOf("stop") :
    <<"stop", "resolved">> \in calls[k].after =>
      LET c == calls[k]
          called == Called(c)
          n == Len(c.trace)
      IN  /\ n > 0
          /\ c.trace[1].step = "legacy.stop" /\ c.trace[1].kind = "call"
          /\ IsPrefix(called, StopOrder)
          /\ c.status = "resolved" <=>
               called = StopOrder /\ c.trace[n].kind = "return"
          /\ c.status = "rejected" <=> c.trace[n].kind = "throw"
          /\ c.status = "rejected" =>
               c.error = c.trace[n].step /\ c.error = called[Len(called)]

\* A second stop(), invoked after the first resolved, has stopped the five
\* services again and resolved.
C21_Witness ==
  \E j, k \in CallsOf("stop") :
    /\ j < k
    /\ calls[j].status = "resolved"
    /\ <<"stop", "resolved">> \in calls[k].after
    /\ calls[k].status = "resolved"
    /\ Called(calls[k]) = StopOrder

====
